---- MODULE Spec2Model ----
(***************************************************************************)
(* A model of go-daikin: the discovery scanner of net.go (NewNetwork and   *)
(* its options, getBroadcastAddresses, Discover and its poller goroutines) *)
(* and the parameter codec and device client of the daikin package.        *)
(*                                                                         *)
(* Strings that the code only compares are TLA+ strings.  Strings that the *)
(* code converts (strconv.Itoa / strconv.Atoi, the switch statements of    *)
(* the decode methods, strings.SplitN) are sequences of one-character      *)
(* strings, so that a conversion is computed and not assumed.              *)
(***************************************************************************)
EXTENDS Integers, Sequences, FiniteSets, TLC

VARIABLES
    \* ---- DaikinNetwork (net.go:65-78) ----
    Interface,      \* d.Interface
    PollCount,      \* d.PollCount
    Devices,        \* d.Devices: address -> *Daikin
    broadcasts,     \* d.broadcasts
    \* ---- the host and one call of Discover ----
    interfaces,     \* what net.Interfaces() returns on this host
    enumerated,     \* net.Interfaces() has been called
    srcs,           \* for each element of broadcasts, the address it was computed from
    conn,           \* the UDP socket of Discover: "none", "open", "closed"
    dpc,            \* where the caller is: "ready", "spawn", "wait", "returned"
    k,              \* index of the spawn loop (178-182) and of the wait loop (183-185)
    ret,            \* what Discover returned
    pc,             \* per poller: "idle","loop","send","read","check","insert","done"
    iter,           \* per poller: the loop variable i of line 145
    rAddr,          \* per poller: what the last ReadFromUDP of its read loop gave:
                    \* Nil (nothing yet), ReadErr (a non-timeout error) or the
                    \* source address of the datagram
    done,           \* per poller: its done channel is closed
    crashed,        \* the runtime aborted the process (concurrent map access)
    Devices0,       \* the registry when Discover was called
    sends,          \* per poller: the calls of conn.WriteToUDP (line 147) it has made
    \* ---- one enumerated field and its codec (Power, Mode, Fan or FanDir) ----
    ftyp,           \* which of the four types the field has
    src,            \* the field of the caller's ControlInfo (what is encoded)
    dst,            \* the field of the ControlInfo that decode writes to
    wire,           \* the wire string on its way to decode
    res,            \* the outcome of the last decode
    \* ---- one Daikin device and its client operations ----
    dev,            \* d.ControlInfo and d.SensorInfo (NilInfo: nil pointer)
    op              \* the last operation: its name, what it framed and returned

netVars == <<Interface, PollCount, Devices, broadcasts, interfaces, enumerated, srcs, conn,
             dpc, k, ret, pc, iter, rAddr, done, crashed, Devices0, sends>>

codecVars == <<ftyp, src, dst, wire, res>>

devVars == <<dev, op>>

vars == <<netVars, codecVars, devVars>>

Nil == "nil"
ReadErr == "read error"

\* m[a] = v on a Go map
MapAssign(m, a, v) == [x \in DOMAIN m \cup {a} |-> IF x = a THEN v ELSE m[x]]

\* ------------------------------------------------------------------------
\* Bounds of the model
\* ------------------------------------------------------------------------
MaxOpts == 2            \* options passed to NewNetwork
MaxPollCount == 2       \* largest PollCount a caller assigns
MaxIfs == 2             \* interfaces present on the host

\* ------------------------------------------------------------------------
\* Bytes
\* ------------------------------------------------------------------------
ByteMod == 256

RECURSIVE BitAnd(_, _, _)
BitAnd(a, b, n) ==
    IF n = 0 THEN 0
    ELSE (IF a % 2 = 1 /\ b % 2 = 1 THEN 1 ELSE 0) + 2 * BitAnd(a \div 2, b \div 2, n - 1)

RECURSIVE BitOr(_, _, _)
BitOr(a, b, n) ==
    IF n = 0 THEN 0
    ELSE (IF a % 2 = 1 \/ b % 2 = 1 THEN 1 ELSE 0) + 2 * BitOr(a \div 2, b \div 2, n - 1)

ByteAnd(a, b) == BitAnd(a, b, 8)
ByteOr(a, b) == BitOr(a, b, 8)

RECURSIVE Pow2(_)
Pow2(n) == IF n = 0 THEN 1 ELSE 2 * Pow2(n - 1)

\* net.CIDRMask(prefix, 32)[j], j in 1..4: the leading prefix bits are ones.
MaskOctet(prefix, j) ==
    LET n == IF prefix - 8 * (j - 1) < 0 THEN 0
             ELSE IF prefix - 8 * (j - 1) > 8 THEN 8
             ELSE prefix - 8 * (j - 1)
    IN  ByteMod - Pow2(8 - n)

CIDRMask(prefix) == [j \in 1..4 |-> MaskOctet(prefix, j)]

\* ------------------------------------------------------------------------
\* Interface flags (net.Flags is a bit set; a set of flag names here)
\* ------------------------------------------------------------------------
FlagUp == "up"
FlagBroadcast == "broadcast"
FlagLoopback == "loopback"
FlagPointToPoint == "pointtopoint"
FlagMulticast == "multicast"
FlagRunning == "running"

wantFlags == {FlagUp, FlagBroadcast, FlagMulticast}

\* ------------------------------------------------------------------------
\* getBroadcastAddresses (net.go:81-122)
\* ------------------------------------------------------------------------
\* An interface address is [ip, prefix, v4, parses]: a.String() is "ip/prefix";
\* parses is whether net.ParseCIDR accepts it, v4 whether ip.To4() is non-nil.

\* net.ParseCIDR: network.IP is the address masked by network.Mask.
NetworkIP(a) == [j \in 1..4 |-> ByteAnd(a.ip[j], CIDRMask(a.prefix)[j])]

\* line 112: bCast[i] = byte(network.IP[i]) | (0xff - network.Mask[i])
BCastOctetBadNoInvert(n, m) == ByteOr(n, m)
BCastOctet(n, m) == ByteOr(n, (255 - m) % ByteMod)

\* lines 110-113
BCast(a) == [j \in 1..4 |-> BCastOctet(NetworkIP(a)[j], CIDRMask(a.prefix)[j])]

\* line 88: the interface is skipped unless this holds
IfSelected(i, name) == ~(i.Flags # wantFlags \/ (name # "" /\ i.Name # name))

\* lines 97-115 for one interface: the addresses that reach line 110, in order
RECURSIVE UsableAddrs(_)
UsableAddrs(adr) ==
    IF adr = <<>> THEN <<>>
    ELSE (IF Head(adr).parses /\ Head(adr).v4 THEN <<Head(adr)>> ELSE <<>>)
         \o UsableAddrs(Tail(adr))

\* lines 87-116: the addresses whose broadcast is appended, in order
RECURSIVE SelectedAddrs(_, _)
SelectedAddrs(ifs, name) ==
    IF ifs = <<>> THEN <<>>
    ELSE (IF IfSelected(Head(ifs), name) /\ Head(ifs).addrsOk
          THEN UsableAddrs(Head(ifs).Addrs) ELSE <<>>)
         \o SelectedAddrs(Tail(ifs), name)

\* The whole method: [broadcasts, srcs, err].  ifErr: net.Interfaces() failed.
GetBroadcastAddresses(ifs, name, ifErr) ==
    IF ifErr THEN [broadcasts |-> <<>>, srcs |-> <<>>, err |-> "interfaces"]
    ELSE LET sel == SelectedAddrs(ifs, name)
             bc == [j \in 1..Len(sel) |-> BCast(sel[j])]
         IN  [broadcasts |-> bc, srcs |-> sel,
              err |-> IF Len(bc) = 0 /\ name # "" THEN "no interface" ELSE Nil]

\* ------------------------------------------------------------------------
\* Strings and strconv
\* ------------------------------------------------------------------------
MaxWireLen == 2         \* longest wire string the device sends to a decode

DigitChars == <<"0", "1", "2", "3", "4", "5", "6", "7", "8", "9">>
IsDigit(c) == \E d \in 1..10 : DigitChars[d] = c
DigitVal(c) == (CHOOSE d \in 1..10 : DigitChars[d] = c) - 1

\* strconv.Itoa
RECURSIVE Utoa(_)
Utoa(n) == IF n < 10 THEN <<DigitChars[n + 1]>>
           ELSE Utoa(n \div 10) \o <<DigitChars[(n % 10) + 1]>>
Itoa(n) == IF n < 0 THEN <<"-">> \o Utoa(-n) ELSE Utoa(n)

RECURSIVE DigitsVal(_, _)
DigitsVal(s, acc) ==
    IF s = <<>> THEN acc ELSE DigitsVal(Tail(s), acc * 10 + DigitVal(Head(s)))

\* strconv.Atoi on a short string: an optional sign, then one or more digits
Atoi(s) ==
    LET signed == s # <<>> /\ Head(s) \in {"+", "-"}
        digits == IF signed THEN Tail(s) ELSE s
    IN  IF digits = <<>> \/ \E j \in DOMAIN digits : ~IsDigit(digits[j])
        THEN [ok |-> FALSE, v |-> 0]
        ELSE [ok |-> TRUE,
              v |-> IF Head(s) = "-" THEN 0 - DigitsVal(digits, 0)
                    ELSE DigitsVal(digits, 0)]

\* ------------------------------------------------------------------------
\* The enumerated parameter types (part_000:285-480)
\* ------------------------------------------------------------------------
PowerOff == 0
PowerOn == 1
powerMap == (PowerOff :> "Off") @@ (PowerOn :> "On")

ModeDehumidify == 2
ModeCool == 3
ModeHeat == 4
ModeFan == 6
ModeAuto == 0
ModeAuto1 == 1
ModeAuto7 == 7
modeMap ==
    (ModeDehumidify :> "Dehumidify") @@ (ModeCool :> "Cool") @@ (ModeHeat :> "Heat")
    @@ (ModeFan :> "Fan") @@ (ModeAuto :> "Auto") @@ (ModeAuto1 :> "Auto")
    @@ (ModeAuto7 :> "Auto")

FanAuto == <<"A">>
FanSilent == <<"B">>
Fan1 == <<"3">>
Fan2 == <<"4">>
Fan3 == <<"5">>
Fan4 == <<"6">>
Fan5 == <<"7">>
fanMap ==
    (FanAuto :> "Auto") @@ (FanSilent :> "Silent") @@ (Fan1 :> "1") @@ (Fan2 :> "2")
    @@ (Fan3 :> "3") @@ (Fan4 :> "4") @@ (Fan5 :> "5")

FanDirStopped == 0
FanDirVertical == 1
FanDirHorizontal == 2
FanDirBoth == 3
fanDirMap ==
    (FanDirStopped :> "Stopped") @@ (FanDirVertical :> "Vertical")
    @@ (FanDirHorizontal :> "Horizontal") @@ (FanDirBoth :> "Both")

\* The value put under the field's key by setUrlValues (lines 299, 355, 405, 457)
PowerSetUrlValues(p) == Itoa(p)
ModeSetUrlValues(m) == Itoa(m)
FanSetUrlValues(f) == f
FanDirSetUrlValues(f) == Itoa(f)

\* decode: [err, v], v the field after the call (the field before it on an error)
Decoded(v) == [err |-> FALSE, v |-> v]
DecodeError(cur) == [err |-> TRUE, v |-> cur]

\* lines 303-313
PowerDecode(p, s) ==
    IF s = <<"0">> THEN Decoded(PowerOff)
    ELSE IF s = <<"1">> THEN Decoded(PowerOn)
    ELSE DecodeError(p)

\* lines 359-379
ModeDecodeBadAuto7(m, s) ==
    IF s = <<"2">> THEN Decoded(ModeDehumidify)
    ELSE IF s = <<"3">> THEN Decoded(ModeCool)
    ELSE IF s = <<"4">> THEN Decoded(ModeHeat)
    ELSE IF s = <<"6">> THEN Decoded(ModeFan)
    ELSE IF s = <<"0">> THEN Decoded(ModeAuto)
    ELSE IF s = <<"1">> THEN Decoded(ModeAuto1)
    ELSE IF s = <<"7">> THEN Decoded(ModeAuto)
    ELSE DecodeError(m)
ModeDecode(m, s) ==
    IF s = <<"2">> THEN Decoded(ModeDehumidify)
    ELSE IF s = <<"3">> THEN Decoded(ModeCool)
    ELSE IF s = <<"4">> THEN Decoded(ModeHeat)
    ELSE IF s = <<"6">> THEN Decoded(ModeFan)
    ELSE IF s = <<"0">> THEN Decoded(ModeAuto)
    ELSE IF s = <<"1">> THEN Decoded(ModeAuto1)
    ELSE IF s = <<"7">> THEN Decoded(ModeAuto7)
    ELSE DecodeError(m)

\* lines 409-429
FanDecode(f, s) ==
    IF s = <<"A">> THEN Decoded(FanAuto)
    ELSE IF s = <<"B">> THEN Decoded(FanSilent)
    ELSE IF s = <<"3">> THEN Decoded(Fan1)
    ELSE IF s = <<"4">> THEN Decoded(Fan2)
    ELSE IF s = <<"5">> THEN Decoded(Fan3)
    ELSE IF s = <<"6">> THEN Decoded(Fan4)
    ELSE IF s = <<"7">> THEN Decoded(Fan5)
    ELSE DecodeError(f)

\* lines 461-472
FanDirDecode(f, s) ==
    LET a == Atoi(s)
    IN  IF ~a.ok THEN DecodeError(f)
        ELSE IF a.v \notin DOMAIN fanDirMap THEN DecodeError(f)
        ELSE Decoded(a.v)

FieldTypes == {"Power", "Mode", "Fan", "FanDir"}

\* The values of each type's table
Table(t) ==
    CASE t = "Power" -> DOMAIN powerMap
      [] t = "Mode" -> DOMAIN modeMap
      [] t = "Fan" -> DOMAIN fanMap
      [] t = "FanDir" -> DOMAIN fanDirMap

\* The field of ControlInfo{} (the zero value of the type)
ZeroValue(t) == IF t = "Fan" THEN <<>> ELSE 0

SetUrlValues(t, v) ==
    CASE t = "Power" -> PowerSetUrlValues(v)
      [] t = "Mode" -> ModeSetUrlValues(v)
      [] t = "Fan" -> FanSetUrlValues(v)
      [] t = "FanDir" -> FanDirSetUrlValues(v)

Decode(t, cur, s) ==
    CASE t = "Power" -> PowerDecode(cur, s)
      [] t = "Mode" -> ModeDecode(cur, s)
      [] t = "Fan" -> FanDecode(cur, s)
      [] t = "FanDir" -> FanDirDecode(cur, s)

\* ------------------------------------------------------------------------
\* One field: the caller assigns it, setUrlValues encodes it, the device sends
\* a string, decode reads a string into a field of another ControlInfo
\* ------------------------------------------------------------------------
WireChars == {"0", "1", "9", "A", "+", "-"}

WireStrings ==
    UNION {[1..n -> WireChars] : n \in 0..MaxWireLen}
    \cup UNION {{SetUrlValues(t, v) : v \in Table(t)} : t \in FieldTypes}

NoWire(t) == [set |-> FALSE, s |-> <<>>, enc |-> FALSE, from |-> ZeroValue(t)]
NoRes(t) == [set |-> FALSE, s |-> <<>>, err |-> FALSE, enc |-> FALSE, from |-> ZeroValue(t)]

CodecInit(types) ==
    /\ ftyp \in types
    /\ src = ZeroValue(ftyp)
    /\ dst = ZeroValue(ftyp)
    /\ wire = NoWire(ftyp)
    /\ res = NoRes(ftyp)

CodecIdle == CodecInit({"Power"})

\* The caller assigns a constant of the type (as the command does with its flags)
AssignField(v) ==
    /\ src # v
    /\ src' = v
    /\ wire' = NoWire(ftyp)
    /\ res' = NoRes(ftyp)
    /\ UNCHANGED <<ftyp, dst, netVars, devVars>>

\* p.setUrlValues(v): the string stored under the field's key
EncodeField ==
    /\ wire' = [set |-> TRUE, s |-> SetUrlValues(ftyp, src), enc |-> TRUE, from |-> src]
    /\ res' = NoRes(ftyp)
    /\ UNCHANGED <<ftyp, src, dst, netVars, devVars>>

\* The device's response carries the string s for the field's key
DeviceSends(s) ==
    /\ wire' = [set |-> TRUE, s |-> s, enc |-> FALSE, from |-> ZeroValue(ftyp)]
    /\ res' = NoRes(ftyp)
    /\ UNCHANGED <<ftyp, src, dst, netVars, devVars>>

\* err = field.decode(s)
DecodeField ==
    /\ wire.set
    /\ LET r == Decode(ftyp, dst, wire.s)
       IN  /\ dst' = r.v
           /\ res' = [set |-> TRUE, s |-> wire.s, err |-> r.err, enc |-> wire.enc,
                      from |-> wire.from]
    /\ wire' = NoWire(ftyp)
    /\ UNCHANGED <<ftyp, src, netVars, devVars>>

\* ------------------------------------------------------------------------
\* Temperature and Humidity (part_000:482-523)
\* ------------------------------------------------------------------------
\* A Temperature is held in hundredths of a degree.
TempScale == 100

\* strings.Index(s, c) + 1 for a one-character c; 0 when c does not occur
RECURSIVE IndexFrom(_, _, _)
IndexFrom(s, c, j) ==
    IF j > Len(s) THEN 0 ELSE IF s[j] = c THEN j ELSE IndexFrom(s, c, j + 1)
IndexOf(s, c) == IndexFrom(s, c, 1)

AllDigits(s) == \A j \in DOMAIN s : IsDigit(s[j])

\* strconv.ParseFloat on a plain decimal: an optional sign, digits, and an
\* optional point with digits, with a digit somewhere; fractions of at most two
\* digits (the strings the model sends).
ParseFloat(s) ==
    LET signed == s # <<>> /\ Head(s) \in {"+", "-"}
        num == IF signed THEN Tail(s) ELSE s
        dot == IndexOf(num, ".")
        ip == IF dot = 0 THEN num ELSE SubSeq(num, 1, dot - 1)
        fp == IF dot = 0 THEN <<>> ELSE SubSeq(num, dot + 1, Len(num))
        mag == DigitsVal(ip, 0) * TempScale
               + (IF Len(fp) = 0 THEN 0
                  ELSE IF Len(fp) = 1 THEN 10 * DigitVal(fp[1])
                  ELSE 10 * DigitVal(fp[1]) + DigitVal(fp[2]))
    IN  IF ~AllDigits(ip) \/ ~AllDigits(fp) \/ Len(ip) + Len(fp) = 0
        THEN [ok |-> FALSE, v |-> 0]
        ELSE [ok |-> TRUE, v |-> IF signed /\ Head(s) = "-" THEN 0 - mag ELSE mag]

\* lines 489-496
TemperatureDecode(t, s) ==
    LET p == ParseFloat(s)
    IN  IF ~p.ok THEN DecodeError(t) ELSE Decoded(p.v)

\* strconv.FormatFloat rounds to the nearest tenth; a value exactly halfway
\* between two tenths (hundredths 25 and 75, which binary64 holds exactly) goes
\* to the even one.  The other hundredths ending in 5 are not binary64 values
\* (their nearest binary64 lies on one side of the halfway point) and are not
\* among the temperatures the model draws.
Tenths(mag) ==
    LET q == mag \div 10
        z == mag % 10
    IN  IF z < 5 THEN q ELSE IF z > 5 THEN q + 1 ELSE IF q % 2 = 0 THEN q ELSE q + 1

\* lines 498-500: strconv.FormatFloat(t, 'f', 1, 64)
TemperatureString(t) ==
    LET mag == IF t < 0 THEN 0 - t ELSE t
        tenths == Tenths(mag)
    IN  (IF t < 0 THEN <<"-">> ELSE <<>>)
        \o Utoa(tenths \div 10) \o <<".">> \o Utoa(tenths % 10)

\* lines 505-507
HumidityString(h) == Itoa(h)

\* lines 513-523
HumidityDecode(h, s) ==
    LET a == Atoi(IF s = <<"-">> THEN <<"-", "1">> ELSE s)
    IN  IF ~a.ok THEN DecodeError(h) ELSE Decoded(a.v)

\* ------------------------------------------------------------------------
\* ControlInfo, SensorInfo and the device client (part_000:545-720)
\* ------------------------------------------------------------------------
MaxTokens == 2          \* fields of the one record of a response body

kRet == <<"r", "e", "t">>
kPow == <<"p", "o", "w">>
kMode == <<"m", "o", "d", "e">>
kStemp == <<"s", "t", "e", "m", "p">>
kShum == <<"s", "h", "u", "m">>
kFRate == <<"f", "_", "r", "a", "t", "e">>
kFDir == <<"f", "_", "d", "i", "r">>
kHtemp == <<"h", "t", "e", "m", "p">>
kOtemp == <<"o", "t", "e", "m", "p">>
kHhum == <<"h", "h", "u", "m">>
kAdv == <<"a", "d", "v">>

returnOk == <<"O", "K">>
returnBad == <<"P", "A", "R", "A", "M", " ", "N", "G">>

NilInfo == [nil |-> TRUE]

\* ControlInfo{} and SensorInfo{}
NewControlInfo ==
    [nil |-> FALSE, Power |-> 0, Mode |-> 0, Fan |-> <<>>, FanDir |-> 0,
     Temperature |-> 0, Humidity |-> 0]
NewSensorInfo ==
    [nil |-> FALSE, HomeTemperature |-> 0, OutsideTemperature |-> 0, Humidity |-> 0]

EmptyValues == [x \in {} |-> <<>>]

\* Errors: [kind, detail]
NoError == [kind |-> "nil", detail |-> <<>>]
DeviceErr(v) == [kind |-> "device", detail |-> v]
DecodeErr(v) == [kind |-> "decode", detail |-> v]
TransportErr == [kind |-> "transport", detail |-> <<>>]
FrameErr == [kind |-> "frame", detail |-> <<>>]
Panic == [kind |-> "panic", detail |-> <<>>]

\* lines 609-618
urlValues(c) ==
    (kPow :> PowerSetUrlValues(c.Power))
    @@ (kMode :> ModeSetUrlValues(c.Mode))
    @@ (kFRate :> FanSetUrlValues(c.Fan))
    @@ (kFDir :> FanDirSetUrlValues(c.FanDir))
    @@ (kStemp :> TemperatureString(c.Temperature))
    @@ (kShum :> HumidityString(c.Humidity))

RetError(v) == IF v # returnOk THEN DeviceErr(v) ELSE NoError
FieldError(r, v) == IF r.err THEN DecodeErr(v) ELSE NoError

\* lines 622-643: the body of the loop of ControlInfo.populate for one key
ControlInfoSet(c, key, v) ==
    CASE key = kPow ->
            LET r == PowerDecode(c.Power, v)
            IN  [c |-> [c EXCEPT !.Power = r.v], err |-> FieldError(r, v)]
      [] key = kMode ->
            LET r == ModeDecode(c.Mode, v)
            IN  [c |-> [c EXCEPT !.Mode = r.v], err |-> FieldError(r, v)]
      [] key = kStemp ->
            LET r == TemperatureDecode(c.Temperature, v)
            IN  [c |-> [c EXCEPT !.Temperature = r.v], err |-> FieldError(r, v)]
      [] key = kShum ->
            LET r == HumidityDecode(c.Humidity, v)
            IN  [c |-> [c EXCEPT !.Humidity = r.v], err |-> FieldError(r, v)]
      [] key = kFRate ->
            LET r == FanDecode(c.Fan, v)
            IN  [c |-> [c EXCEPT !.Fan = r.v], err |-> FieldError(r, v)]
      [] key = kFDir ->
            LET r == FanDirDecode(c.FanDir, v)
            IN  [c |-> [c EXCEPT !.FanDir = r.v], err |-> FieldError(r, v)]
      [] key = kRet -> [c |-> c, err |-> RetError(v)]
      [] OTHER -> [c |-> c, err |-> NoError]

\* lines 569-584: the body of the loop of SensorInfo.populate for one key
SensorInfoSet(c, key, v) ==
    CASE key = kHtemp ->
            LET r == TemperatureDecode(c.HomeTemperature, v)
            IN  [c |-> [c EXCEPT !.HomeTemperature = r.v], err |-> FieldError(r, v)]
      [] key = kOtemp ->
            LET r == TemperatureDecode(c.OutsideTemperature, v)
            IN  [c |-> [c EXCEPT !.OutsideTemperature = r.v], err |-> FieldError(r, v)]
      [] key = kHhum ->
            LET r == HumidityDecode(c.Humidity, v)
            IN  [c |-> [c EXCEPT !.Humidity = r.v], err |-> FieldError(r, v)]
      [] key = kRet -> [c |-> c, err |-> RetError(v)]
      [] OTHER -> [c |-> c, err |-> NoError]

\* populate (lines 567-587 and 620-646): `for k, v := range values` visits the
\* keys in an order the runtime chooses, here the sequence order; the first
\* error ends the loop.  sensor: SensorInfo.populate, else ControlInfo.populate.
RECURSIVE Populate(_, _, _, _)
Populate(sensor, c, values, order) ==
    IF order = <<>> THEN [c |-> c, err |-> NoError]
    ELSE LET r == IF sensor THEN SensorInfoSet(c, Head(order), values[Head(order)])
                  ELSE ControlInfoSet(c, Head(order), values[Head(order)])
         IN  IF r.err # NoError THEN r
             ELSE Populate(sensor, r.c, values, Tail(order))

\* The orders in which a range over a map with key set S can visit it
Orders(S) ==
    {o \in [1..Cardinality(S) -> S] : \A a, b \in DOMAIN o : a # b => o[a] # o[b]}

\* lines 668-672: parts := strings.SplitN(rec, "=", 2); values[parts[0]] = parts[1]
\* (parts[1] does not exist when rec holds no "=": index out of range)
RECURSIVE SplitRecord(_, _)
SplitRecord(rec, values) ==
    IF rec = <<>> THEN [panic |-> FALSE, values |-> values]
    ELSE LET tok == Head(rec)
             eq == IndexOf(tok, "=")
         IN  IF eq = 0 THEN [panic |-> TRUE, values |-> values]
             ELSE SplitRecord(Tail(rec),
                      MapAssign(values, SubSeq(tok, 1, eq - 1),
                                SubSeq(tok, eq + 1, Len(tok))))

\* parseResponse (lines 653-675).  A response is [fail, records]: fail is "read"
\* when ioutil.ReadAll fails and "csv" when the csv reader rejects the body;
\* records are the rows the csv reader returns, each a sequence of fields.
parseResponse(resp) ==
    IF resp.fail = "read" THEN [err |-> TransportErr, values |-> EmptyValues]
    ELSE IF resp.fail = "csv" THEN [err |-> FrameErr, values |-> EmptyValues]
    ELSE IF Len(resp.records) # 1 THEN [err |-> FrameErr, values |-> EmptyValues]
    ELSE LET r == SplitRecord(resp.records[1], EmptyValues)
         IN  IF r.panic THEN [err |-> Panic, values |-> EmptyValues]
             ELSE [err |-> NoError, values |-> r.values]

\* The responses a device (or whatever answers at its address) gives
Field(key, v) == key \o <<"=">> \o v

DevTokens ==
    { Field(kRet, returnOk), Field(kRet, returnBad),
      Field(kPow, <<"1">>), Field(kPow, <<"9">>),
      Field(kStemp, <<"2", "2", ".", "5">>),
      Field(kShum, <<"-">>),
      Field(kHtemp, <<"2", "5", ".", "0">>),
      Field(kOtemp, <<"-">>),
      Field(kAdv, <<"1", "=", "2">>),
      kRet }

Responses ==
    {[fail |-> f, records |-> <<>>] : f \in {"none", "http", "read", "csv"}}
    \cup {[fail |-> "none", records |-> <<rec>>] :
             rec \in UNION {[1..n -> DevTokens] : n \in 1..MaxTokens}}
    \cup {[fail |-> "none", records |-> <<<<a>>, <<b>>>>] :
             a, b \in {Field(kRet, returnOk), Field(kPow, <<"1">>)}}

DevInit ==
    /\ dev = [ControlInfo |-> NilInfo, SensorInfo |-> NilInfo]
    /\ op = [name |-> "none", framed |-> FALSE, values |-> EmptyValues,
             err |-> NoError]

Done(name, parsed, err) ==
    [name |-> name, framed |-> parsed.err = NoError, values |-> parsed.values,
     err |-> err]

NotFramed == [err |-> TransportErr, values |-> EmptyValues]

\* GetControlInfo (lines 695-706)
GetControlInfo(resp) ==
    /\ IF resp.fail = "http"
       THEN /\ op' = Done("GetControlInfo", NotFramed, TransportErr)
            /\ UNCHANGED dev
       ELSE LET parsed == parseResponse(resp)
            IN  IF parsed.err # NoError
                THEN /\ dev' = [dev EXCEPT !.ControlInfo = NewControlInfo]
                     /\ op' = Done("GetControlInfo", parsed, parsed.err)
                ELSE \E order \in Orders(DOMAIN parsed.values) :
                        LET r == Populate(FALSE, NewControlInfo, parsed.values, order)
                        IN  /\ dev' = [dev EXCEPT !.ControlInfo = r.c]
                            /\ op' = Done("GetControlInfo", parsed, r.err)
    /\ UNCHANGED <<netVars, codecVars>>

\* GetSensorInfo (lines 709-720)
GetSensorInfo(resp) ==
    /\ IF resp.fail = "http"
       THEN /\ op' = Done("GetSensorInfo", NotFramed, TransportErr)
            /\ UNCHANGED dev
       ELSE LET parsed == parseResponse(resp)
            IN  IF parsed.err # NoError
                THEN /\ dev' = [dev EXCEPT !.SensorInfo = NewSensorInfo]
                     /\ op' = Done("GetSensorInfo", parsed, parsed.err)
                ELSE \E order \in Orders(DOMAIN parsed.values) :
                        LET r == Populate(TRUE, NewSensorInfo, parsed.values, order)
                        IN  /\ dev' = [dev EXCEPT !.SensorInfo = r.c]
                            /\ op' = Done("GetSensorInfo", parsed, r.err)
    /\ UNCHANGED <<netVars, codecVars>>

\* line 688: v := vals["ret"] is "" when the key is absent
RetOf(values) == IF kRet \in DOMAIN values THEN values[kRet] ELSE <<>>

\* SetControlInfo (lines 678-692); d.ControlInfo.urlValues() dereferences a nil
\* d.ControlInfo when no GetControlInfo preceded.
SetControlInfo(resp) ==
    /\ IF dev.ControlInfo = NilInfo
       THEN op' = Done("SetControlInfo", NotFramed, Panic)
       ELSE IF resp.fail = "http"
       THEN op' = Done("SetControlInfo", NotFramed, TransportErr)
       ELSE LET parsed == parseResponse(resp)
            IN  IF parsed.err # NoError
                THEN op' = Done("SetControlInfo", parsed, parsed.err)
                ELSE op' = Done("SetControlInfo", parsed, RetError(RetOf(parsed.values)))
    /\ UNCHANGED <<dev, netVars, codecVars>>

\* ------------------------------------------------------------------------
\* NewNetwork and its options (net.go:20-62)
\* ------------------------------------------------------------------------
\* A *Daikin: Address and Token are its fields; by is the identity of the
\* allocation (0: made by an option, p: made by poller p at line 168).
Daikin(addr, token, by) == [Address |-> addr, Token |-> token, by |-> by]

InterfaceOption(i) == [kind |-> "Interface", i |-> i, addr |-> "", token |-> ""]
AddressOption(addr) == [kind |-> "Address", i |-> "", addr |-> addr, token |-> ""]
AddressTokenOption(addr, token) ==
    [kind |-> "AddressToken", i |-> "", addr |-> addr, token |-> token]

\* opt(dn), for the three option closures (lines 22-24, 29-36, 41-48)
ApplyOption(d, o) ==
    IF o.kind = "Interface" THEN [d EXCEPT !.Interface = o.i]
    ELSE IF o.addr # ""
         THEN [d EXCEPT !.Devices = (o.addr :> Daikin(o.addr, o.token, 0)),
                        !.PollCount = 0]
         ELSE d

RECURSIVE ApplyOptions(_, _)
ApplyOptions(d, o) ==
    IF o = <<>> THEN d ELSE ApplyOptions(ApplyOption(d, Head(o)), Tail(o))

EmptyMap == [a \in {} |-> Nil]

\* lines 52-62
NewNetwork(o) ==
    ApplyOptions([Interface |-> "", PollCount |-> 1, Devices |-> EmptyMap], o)

\* ------------------------------------------------------------------------
\* The inputs the model draws
\* ------------------------------------------------------------------------
IfNames == {"", "eth0"}
SeedAddrs == {"", "192.168.1.10"}
Tokens == {"tok"}
ReplyAddrs == {"192.168.1.10", "192.168.1.11"}

Options ==
    {InterfaceOption(i) : i \in IfNames}
    \cup {AddressOption(a) : a \in SeedAddrs}
    \cup {AddressTokenOption(a, t) : a \in SeedAddrs, t \in Tokens}

OptionSeqs == UNION {[1..n -> Options] : n \in 0..MaxOpts}

V4(ip, prefix) == [ip |-> ip, prefix |-> prefix, v4 |-> TRUE, parses |-> TRUE]
V6Addr == [ip |-> <<0, 0, 0, 0>>, prefix |-> 0, v4 |-> FALSE, parses |-> TRUE]
Iface(name, flags, addrs) ==
    [Name |-> name, Flags |-> flags, Addrs |-> addrs, addrsOk |-> TRUE]

\* The interfaces a host of the scan model may have; a host has at most MaxIfs
\* of them, in this order.
IfPool ==
    << Iface("eth0", wantFlags, <<V4(<<192, 168, 1, 42>>, 24)>>),
       Iface("wlan0", wantFlags, <<V6Addr, V4(<<10, 0, 0, 5>>, 8)>>),
       Iface("eth1", wantFlags, <<V4(<<172, 16, 9, 9>>, 20)>>),
       Iface("lo", {FlagUp, FlagLoopback}, <<V4(<<127, 0, 0, 1>>, 8)>>) >>

RECURSIVE PickFrom(_, _, _)
PickFrom(pool, j, S) ==
    IF j > Len(pool) THEN <<>>
    ELSE (IF j \in S THEN <<pool[j]>> ELSE <<>>) \o PickFrom(pool, j + 1, S)

IfEnvs ==
    {PickFrom(IfPool, 1, S) :
        S \in {T \in SUBSET (1..Len(IfPool)) : Cardinality(T) <= MaxIfs}}

\* ------------------------------------------------------------------------
\* Discover (net.go:127-188)
\* ------------------------------------------------------------------------
Pollers == DOMAIN pc

NoPollers == <<>>

InitNet(envs, optSeqs) ==
    /\ interfaces \in envs
    /\ \E o \in optSeqs :
          LET d == NewNetwork(o)
          IN  /\ Interface = d.Interface
              /\ PollCount = d.PollCount
              /\ Devices = d.Devices
              /\ Devices0 = d.Devices
    /\ broadcasts = <<>>
    /\ enumerated = FALSE
    /\ srcs = <<>>
    /\ conn = "none"
    /\ dpc = "ready"
    /\ k = 0
    /\ ret = Nil
    /\ pc = NoPollers
    /\ iter = NoPollers
    /\ rAddr = NoPollers
    /\ done = NoPollers
    /\ sends = NoPollers
    /\ crashed = FALSE

Init == InitNet(IfEnvs, OptionSeqs) /\ CodecIdle /\ DevInit

\* The caller assigns the exported field PollCount (net.go:71-72) before the scan.
SetPollCount(n) ==
    /\ dpc = "ready"
    /\ PollCount # n
    /\ PollCount' = n
    /\ UNCHANGED <<Interface, Devices, broadcasts, interfaces, enumerated, srcs, conn, dpc, k,
                   ret, pc, iter, rAddr, done, crashed, Devices0, sends, codecVars, devVars>>

\* line 128
SkipDiscoveryBadZeroPolls(n) == n < 0
SkipDiscovery(n) == n < 1

\* lines 128-130
DiscoverNoop ==
    /\ dpc = "ready"
    /\ SkipDiscovery(PollCount)
    /\ dpc' = "returned"
    /\ ret' = Nil
    /\ UNCHANGED <<Interface, PollCount, Devices, broadcasts, interfaces, enumerated, srcs, conn,
                   k, pc, iter, rAddr, done, crashed, Devices0, sends, codecVars, devVars>>

\* lines 131-140 and the entry of the loop of lines 177-182.  ifErr: net.Interfaces
\* fails; listenOk: net.ListenUDP succeeds.
DiscoverStart(ifErr, listenOk) ==
    /\ dpc = "ready"
    /\ ~SkipDiscovery(PollCount)
    /\ LET g == GetBroadcastAddresses(interfaces, Interface, ifErr)
           n == Len(g.broadcasts)
       IN  /\ broadcasts' = g.broadcasts
           /\ srcs' = g.srcs
           /\ IF g.err # Nil
              THEN /\ dpc' = "returned" /\ ret' = g.err
                   /\ UNCHANGED <<conn, k, pc, iter, rAddr, done, sends>>
              ELSE IF ~listenOk
              THEN /\ dpc' = "returned" /\ ret' = "listen"
                   /\ UNCHANGED <<conn, k, pc, iter, rAddr, done, sends>>
              ELSE /\ conn' = "open"
                   /\ dpc' = IF n = 0 THEN "wait" ELSE "spawn"
                   /\ k' = 1
                   /\ pc' = [p \in 1..n |-> "idle"]
                   /\ iter' = [p \in 1..n |-> 0]
                   /\ rAddr' = [p \in 1..n |-> Nil]
                   /\ done' = [p \in 1..n |-> FALSE]
                   /\ sends' = [p \in 1..n |-> 0]
                   /\ UNCHANGED ret
    /\ UNCHANGED <<Interface, PollCount, Devices, interfaces, crashed, Devices0, codecVars, devVars>>
    /\ enumerated' = TRUE

\* lines 178-182, one iteration: go poller(b.String(), ch)
Spawn ==
    /\ dpc = "spawn"
    /\ ~crashed
    /\ k <= Len(broadcasts)
    /\ pc' = [pc EXCEPT ![k] = "loop"]
    /\ IF k = Len(broadcasts) THEN dpc' = "wait" /\ k' = 1
       ELSE dpc' = "spawn" /\ k' = k + 1
    /\ UNCHANGED <<Interface, PollCount, Devices, broadcasts, interfaces, enumerated, srcs, conn,
                   ret, iter, rAddr, done, crashed, Devices0, sends, codecVars, devVars>>

\* line 184: the receive returns once the channel is closed (nothing is ever sent)
ChanClosedBadNoWait(ch) == TRUE
ChanClosed(ch) == done[ch]

\* lines 183-185, one iteration
Wait ==
    /\ dpc = "wait"
    /\ ~crashed
    /\ k <= Len(broadcasts)
    /\ ChanClosed(k)
    /\ k' = k + 1
    /\ UNCHANGED <<Interface, PollCount, Devices, broadcasts, interfaces, enumerated, srcs, conn,
                   dpc, ret, pc, iter, rAddr, done, crashed, Devices0, sends, codecVars, devVars>>

\* line 187 and the deferred conn.Close() of line 140
Return ==
    /\ dpc = "wait"
    /\ ~crashed
    /\ k > Len(broadcasts)
    /\ dpc' = "returned"
    /\ ret' = Nil
    /\ conn' = "closed"
    /\ UNCHANGED <<Interface, PollCount, Devices, broadcasts, interfaces, enumerated, srcs, k,
                   pc, iter, rAddr, done, crashed, Devices0, sends, codecVars, devVars>>

\* ------------------------------------------------------------------------
\* poller (net.go:143-174), one goroutine per broadcast address
\* ------------------------------------------------------------------------
\* line 145 (loop test) and line 173 (close(done))
PollerLoop(p) ==
    /\ ~crashed
    /\ pc[p] = "loop"
    /\ IF iter[p] < PollCount
       THEN pc' = [pc EXCEPT ![p] = "send"] /\ UNCHANGED done
       ELSE pc' = [pc EXCEPT ![p] = "done"] /\ done' = [done EXCEPT ![p] = TRUE]
    /\ UNCHANGED <<Interface, PollCount, Devices, broadcasts, interfaces, enumerated, srcs, conn,
                   dpc, k, ret, iter, rAddr, crashed, Devices0, sends, codecVars, devVars>>

\* lines 147-151: WriteToUDP; on an error the iteration is skipped (continue)
PollerSend(p, ok) ==
    /\ ~crashed
    /\ pc[p] = "send"
    /\ conn = "open"
    /\ sends' = [sends EXCEPT ![p] = @ + 1]
    /\ IF ok
       THEN pc' = [pc EXCEPT ![p] = "read"] /\ UNCHANGED iter
       ELSE pc' = [pc EXCEPT ![p] = "loop"] /\ iter' = [iter EXCEPT ![p] = @ + 1]
    /\ UNCHANGED <<Interface, PollCount, Devices, broadcasts, interfaces, enumerated, srcs, conn,
                   dpc, k, ret, rAddr, done, crashed, Devices0, codecVars, devVars>>

\* lines 154-159 with the break leaving the loop of line 145 as well
PollerReadTimeoutBadEndsLoop(p) ==
    /\ ~crashed
    /\ pc[p] = "read"
    /\ conn = "open"
    /\ pc' = [pc EXCEPT ![p] = "done"]
    /\ done' = [done EXCEPT ![p] = TRUE]
    /\ iter' = [iter EXCEPT ![p] = @ + 1]
    /\ rAddr' = [rAddr EXCEPT ![p] = Nil]
    /\ UNCHANGED <<Interface, PollCount, Devices, broadcasts, interfaces, enumerated, srcs, conn,
                   dpc, k, ret, crashed, Devices0, sends, codecVars, devVars>>

\* lines 154-159: the read ends with a timeout, which ends the read loop
PollerReadTimeout(p) ==
    /\ ~crashed
    /\ pc[p] = "read"
    /\ conn = "open"
    /\ pc' = [pc EXCEPT ![p] = "loop"]
    /\ iter' = [iter EXCEPT ![p] = @ + 1]
    /\ rAddr' = [rAddr EXCEPT ![p] = Nil]
    /\ UNCHANGED <<Interface, PollCount, Devices, broadcasts, interfaces, enumerated, srcs, conn,
                   dpc, k, ret, done, crashed, Devices0, sends, codecVars, devVars>>

\* lines 154-163: the read ends with another error: logged, and the loop continues
PollerReadError(p) ==
    /\ ~crashed
    /\ pc[p] = "read"
    /\ conn = "open"
    /\ rAddr' = [rAddr EXCEPT ![p] = ReadErr]
    /\ UNCHANGED <<Interface, PollCount, Devices, broadcasts, interfaces, enumerated, srcs, conn,
                   dpc, k, ret, pc, iter, done, crashed, Devices0, sends, codecVars, devVars>>

\* lines 154-166: the read returns a datagram from address a
PollerReadReply(p, a) ==
    /\ ~crashed
    /\ pc[p] = "read"
    /\ conn = "open"
    /\ rAddr' = [rAddr EXCEPT ![p] = a]
    /\ pc' = [pc EXCEPT ![p] = "check"]
    /\ UNCHANGED <<Interface, PollCount, Devices, broadcasts, interfaces, enumerated, srcs, conn,
                   dpc, k, ret, iter, done, crashed, Devices0, sends, codecVars, devVars>>

\* line 167: _, ok := d.Devices[ip]
PollerCheck(p) ==
    /\ ~crashed
    /\ pc[p] = "check"
    /\ IF rAddr[p] \in DOMAIN Devices
       THEN pc' = [pc EXCEPT ![p] = "read"] /\ rAddr' = [rAddr EXCEPT ![p] = Nil]
       ELSE pc' = [pc EXCEPT ![p] = "insert"] /\ UNCHANGED rAddr
    /\ UNCHANGED <<Interface, PollCount, Devices, broadcasts, interfaces, enumerated, srcs, conn,
                   dpc, k, ret, iter, done, crashed, Devices0, sends, codecVars, devVars>>

\* lines 168-169: dev := &Daikin{Address: ip}; d.Devices[ip] = dev

PollerInsert(p) ==
    /\ ~crashed
    /\ pc[p] = "insert"
    /\ Devices' = MapAssign(Devices, rAddr[p], Daikin(rAddr[p], "", p))
    /\ pc' = [pc EXCEPT ![p] = "read"]
    /\ rAddr' = [rAddr EXCEPT ![p] = Nil]
    /\ UNCHANGED <<Interface, PollCount, broadcasts, interfaces, enumerated, srcs, conn,
                   dpc, k, ret, iter, done, crashed, Devices0, sends, codecVars, devVars>>

\* Lines 167 and 169 are unsynchronised accesses to one Go map from several
\* goroutines.  When a write by one poller is pending while another poller is at
\* a map access, the accesses may take effect in either order (the actions
\* above), or the runtime may detect the concurrent access and abort the
\* process ("fatal error: concurrent map writes" / "concurrent map read and map
\* write").
RacingAccess(p, q) ==
    /\ p # q
    /\ pc[p] = "insert"
    /\ pc[q] \in {"check", "insert"}

RaceFault ==
    /\ ~crashed
    /\ \E p, q \in Pollers : RacingAccess(p, q)
    /\ crashed' = TRUE
    /\ UNCHANGED <<Interface, PollCount, Devices, broadcasts, interfaces, enumerated, srcs, conn,
                   dpc, k, ret, pc, iter, rAddr, done, Devices0, sends, codecVars, devVars>>

PollerStep(p) ==
    \/ PollerLoop(p)
    \/ \E ok \in BOOLEAN : PollerSend(p, ok)
    \/ PollerReadTimeout(p)
    \/ PollerReadError(p)
    \/ \E a \in ReplyAddrs : PollerReadReply(p, a)
    \/ PollerCheck(p)
    \/ PollerInsert(p)

\* The steps of one call of Discover by the caller's goroutine
Discover ==
    \/ DiscoverNoop
    \/ \E ifErr, listenOk \in BOOLEAN : DiscoverStart(ifErr, listenOk)
    \/ Spawn
    \/ Wait
    \/ Return

Next ==
    \/ \E n \in -1..MaxPollCount : SetPollCount(n)
    \/ DiscoverNoop
    \/ \E ifErr, listenOk \in BOOLEAN : DiscoverStart(ifErr, listenOk)
    \/ Spawn
    \/ Wait
    \/ Return
    \/ \E p \in Pollers : PollerLoop(p)
    \/ \E p \in Pollers, ok \in BOOLEAN : PollerSend(p, ok)
    \/ \E p \in Pollers : PollerReadTimeout(p)
    \/ \E p \in Pollers : PollerReadError(p)
    \/ \E p \in Pollers, a \in ReplyAddrs : PollerReadReply(p, a)
    \/ \E p \in Pollers : PollerCheck(p)
    \/ \E p \in Pollers : PollerInsert(p)
    \/ RaceFault

Spec == Init /\ [][Next]_vars

\* The scheduler runs every goroutine that can take a step, and every call of
\* WriteToUDP and ReadFromUDP returns: weak fairness of the caller's steps and of
\* each poller's steps.  Nothing obliges a read to end with a timeout.
FairSpec ==
    /\ Spec
    /\ WF_vars(Discover)
    /\ \A p \in 1..MaxIfs : WF_vars(p \in Pollers /\ PollerStep(p))

\* ------------------------------------------------------------------------
\* getBroadcastAddresses on its own, over a wider range of hosts
\* ------------------------------------------------------------------------
\* Every octet value occurs at every position of some address of the pool.
IPPool ==
    {<<x, (x + 85) % ByteMod, (x * 3) % ByteMod, 255 - x>> : x \in 0..255}
    \cup {<<192, 168, 1, 42>>, <<10, 0, 0, 5>>}

PrefixLens == 0..32

FlagSets ==
    { wantFlags,
      wantFlags \cup {FlagRunning},
      wantFlags \cup {FlagPointToPoint},
      {FlagUp, FlagBroadcast},
      {FlagUp, FlagMulticast},
      {FlagBroadcast, FlagMulticast},
      {FlagUp, FlagLoopback, FlagRunning} }

BadAddr == [ip |-> <<0, 0, 0, 0>>, prefix |-> 0, v4 |-> TRUE, parses |-> FALSE]

HostIfs ==
    {Iface("eth0", f, <<V4(<<192, 168, 1, 42>>, 24)>>) : f \in FlagSets}
    \cup {Iface("wlan0", f, <<V6Addr, V4(<<10, 0, 0, 5>>, 8)>>) : f \in FlagSets}
    \cup {Iface("eth1", f, <<BadAddr, V4(<<172, 16, 9, 9>>, 20)>>) : f \in FlagSets}
    \cup {[Name |-> "tun0", Flags |-> wantFlags, addrsOk |-> FALSE,
           Addrs |-> <<V4(<<10, 8, 0, 1>>, 24)>>]}

DistinctNames(ifs) ==
    \A a, b \in DOMAIN ifs : a # b => ifs[a].Name # ifs[b].Name

HostEnvs ==
    {<<Iface("eth0", wantFlags, <<V4(ip, n)>>)>> : ip \in IPPool, n \in PrefixLens}
    \cup {ifs \in UNION {[1..n -> HostIfs] : n \in 0..MaxIfs} : DistinctNames(ifs)}

HostOptionSeqs == {<<>>, <<InterfaceOption("eth0")>>, <<InterfaceOption("wlan0")>>}

InitHost == InitNet(HostEnvs, HostOptionSeqs) /\ CodecIdle /\ DevInit

\* One call of d.getBroadcastAddresses() (lines 81-122); ret is its result.
EnumerateInterfaces(ifErr) ==
    /\ dpc = "ready"
    /\ LET g == GetBroadcastAddresses(interfaces, Interface, ifErr)
       IN  /\ broadcasts' = g.broadcasts
           /\ srcs' = g.srcs
           /\ ret' = g.err
    /\ enumerated' = TRUE
    /\ dpc' = "returned"
    /\ UNCHANGED <<Interface, PollCount, Devices, interfaces, conn, k, pc, iter,
                   rAddr, done, crashed, Devices0, sends, codecVars, devVars>>

NextHost == \E ifErr \in BOOLEAN : EnumerateInterfaces(ifErr)

HostSpec == InitHost /\ [][NextHost]_vars

\* ------------------------------------------------------------------------
\* The codec of one field on its own, for each of the four types
\* ------------------------------------------------------------------------
InitCodec == InitNet({<<>>}, {<<>>}) /\ CodecInit(FieldTypes) /\ DevInit

NextCodec ==
    \/ \E v \in Table(ftyp) : AssignField(v)
    \/ EncodeField
    \/ \E s \in WireStrings : DeviceSends(s)
    \/ DecodeField

CodecSpec == InitCodec /\ [][NextCodec]_vars

\* ------------------------------------------------------------------------
\* The client operations on one device
\* ------------------------------------------------------------------------
InitDev == InitNet({<<>>}, {<<>>}) /\ CodecIdle /\ DevInit

NextDev ==
    \/ \E resp \in Responses : GetControlInfo(resp)
    \/ \E resp \in Responses : GetSensorInfo(resp)
    \/ \E resp \in Responses : SetControlInfo(resp)

DevSpec == InitDev /\ [][NextDev]_vars

\* ------------------------------------------------------------------------
\* A ControlInfo sent and read back (part_000:609-646)
\* ------------------------------------------------------------------------
MaxChanged == 2         \* fields the caller sets to something else than BaseInfo

\* Temperatures in hundredths of a degree and humidities the caller sets
TempValues == {0 - 550, 0 - 25, 0, 1800, 2225, 2250, 2275, 2297}
HumValues == {0 - 1, 0, 50}

\* What a GetControlInfo of a running unit returned
BaseInfo ==
    [nil |-> FALSE, Power |-> PowerOn, Mode |-> ModeCool, Fan |-> FanAuto,
     FanDir |-> FanDirStopped, Temperature |-> 2250, Humidity |-> 50]

InfoFields == DOMAIN BaseInfo \ {"nil"}

\* The ControlInfo values whose enumerated fields are constants of their types,
\* after the caller has set up to MaxChanged fields of BaseInfo
ControlInfos ==
    {c \in [nil : {FALSE}, Power : Table("Power"), Mode : Table("Mode"),
            Fan : Table("Fan"), FanDir : Table("FanDir"),
            Temperature : TempValues, Humidity : HumValues] :
        Cardinality({f \in InfoFields : c[f] # BaseInfo[f]}) <= MaxChanged}

\* urlValues sets the same six keys for every ControlInfo
InfoKeys == DOMAIN urlValues(BaseInfo)
InfoOrders == Orders(InfoKeys)

InitInfo ==
    /\ InitNet({<<>>}, {<<>>})
    /\ CodecIdle
    /\ dev \in {[ControlInfo |-> c, SensorInfo |-> NilInfo] : c \in ControlInfos}
    /\ op = [name |-> "none", framed |-> FALSE, values |-> EmptyValues,
             err |-> NoError]

\* vals := d.ControlInfo.urlValues() (line 683)
EncodeInfo ==
    /\ dev.ControlInfo # NilInfo
    /\ op' = [name |-> "urlValues", framed |-> FALSE,
              values |-> urlValues(dev.ControlInfo), err |-> NoError]
    /\ UNCHANGED <<dev, netVars, codecVars>>

\* d.ControlInfo = &ControlInfo{}; d.ControlInfo.populate(vals) (lines 700-705)
\* when the unit answers with the key/value pairs it was sent
PopulateInfo ==
    /\ op.name = "urlValues"
    /\ DOMAIN op.values = InfoKeys
    /\ \E order \in InfoOrders :
          LET r == Populate(FALSE, NewControlInfo, op.values, order)
          IN  /\ dev' = [dev EXCEPT !.ControlInfo = r.c]
              /\ op' = [name |-> "populate", framed |-> FALSE,
                        values |-> op.values, err |-> r.err]
    /\ UNCHANGED <<netVars, codecVars>>

NextInfo ==
    \/ EncodeInfo
    \/ PopulateInfo

InfoSpec == InitInfo /\ [][NextInfo]_vars

\* ========================================================================
\* Properties of the discovery scanner
\* ========================================================================

\* C1: first-seen wins: an address that is a key of Devices keeps its entry;
\* no step of the scan replaces or modifies the *Daikin registered for it.
C1_FirstSeenWins ==
    [][\A a \in DOMAIN Devices :
          a \in DOMAIN Devices' /\ Devices'[a] = Devices[a]]_vars

\* C2: when PollCount < 1, Discover returns nil at once: the registry is the
\* one it was called with, net.Interfaces was never called and d.broadcasts
\* is still empty, no socket was opened and no poller exists (so nothing was sent
\* or read).
C2_NoopWhenNoPolls ==
    (dpc = "returned" /\ PollCount < 1) =>
        /\ ret = Nil
        /\ Devices = Devices0
        /\ broadcasts = <<>>
        /\ ~enumerated
        /\ conn = "none"
        /\ pc = NoPollers

\* C2 witness: Discover has returned on a network that AddressOption or
\* AddressTokenOption pre-seeded (PollCount 0, one device).
C2_Witness ==
    /\ dpc = "returned"
    /\ PollCount = 0
    /\ DOMAIN Devices = {"192.168.1.10"}
    /\ Len(interfaces) > 0

\* C3: barrier: once Discover has returned, and whenever the socket is closed,
\* every poller has run all PollCount iterations and closed its channel, so none
\* is sending, reading or at a registry access; and one poller was started per
\* broadcast address.
C3_Barrier ==
    (dpc = "returned" \/ conn = "closed") =>
        /\ \A p \in Pollers : pc[p] = "done" /\ iter[p] = PollCount /\ done[p]
        /\ conn = "closed" => Pollers = 1..Len(broadcasts)

\* C3 witness: Discover returned after two pollers each ran two iterations.
C3_Witness ==
    /\ dpc = "returned"
    /\ conn = "closed"
    /\ Cardinality(Pollers) >= 2
    /\ PollCount >= 2
    /\ \A p \in Pollers : pc[p] = "done"

\* C4: the scan runs to completion: under FairSpec, Discover eventually returns
\* (a run that the runtime aborts is not counted against the claim here).
C4_ScanCompletes == <>(dpc = "returned" \/ crashed)

\* C5: registry accesses of different pollers never overlap: while poller p is
\* between its membership check (line 167) and its insert (line 169), no other
\* poller performs its check or its insert.
C5_RegistryAccessExclusive ==
    [][\A p, q \in Pollers : RacingAccess(p, q) => pc'[q] = pc[q]]_vars

\* C12: poller iteration structure.  Each poller makes one send attempt per
\* iteration and never more than PollCount, exactly PollCount once it has closed
\* its channel; a failed send goes straight to the next iteration with no read
\* and no registration; a read timeout ends the read loop of that iteration
\* only, the poller going on to the loop test of the next one; a non-timeout
\* read error leaves the poller in its read loop and the registry as it was.
Listening(p) == pc[p] \in {"read", "check", "insert"}

C12_PollerIterations ==
    [][\A p \in DOMAIN pc \cap DOMAIN pc' :
          /\ sends'[p] <= PollCount
          /\ sends'[p] = iter'[p] + (IF pc'[p] \in {"read", "check", "insert"} THEN 1 ELSE 0)
          /\ pc'[p] = "done" => sends'[p] = PollCount
          /\ pc[p] = "send" => pc'[p] \in {"send", "read", "loop"}
          /\ (pc[p] = "send" /\ pc'[p] = "loop") =>
                /\ iter'[p] = iter[p] + 1
                /\ sends'[p] = sends[p] + 1
                /\ Devices' = Devices
          /\ (pc[p] = "send" /\ pc'[p] = "read") =>
                /\ iter'[p] = iter[p]
                /\ sends'[p] = sends[p] + 1
          /\ (Listening(p) /\ ~(pc'[p] \in {"read", "check", "insert"})) =>
                /\ pc[p] = "read"
                /\ pc'[p] = "loop"
                /\ ~done'[p]
                /\ iter'[p] = iter[p] + 1
                /\ Devices' = Devices
          /\ (rAddr'[p] = ReadErr /\ rAddr[p] # ReadErr) =>
                /\ pc[p] = "read"
                /\ pc'[p] = "read"
                /\ iter'[p] = iter[p]
                /\ Devices' = Devices
      ]_vars

\* C12 witness: with PollCount 2, one poller has closed its channel after two
\* send attempts while another, in the read loop of its second iteration (its
\* first ended by a timeout or a failed send), has just had a non-timeout read
\* error.
C12_Witness ==
    /\ PollCount = 2
    /\ \E p, q \in Pollers :
          /\ pc[p] = "done" /\ sends[p] = 2 /\ iter[p] = 2
          /\ pc[q] = "read" /\ iter[q] = 1 /\ sends[q] = 2 /\ rAddr[q] = ReadErr

\* ========================================================================
\* Properties of getBroadcastAddresses
\* ========================================================================
Bit(x, t) == (x \div Pow2(t)) % 2

\* The interfaces the specification selects: flags include up, broadcast and
\* multicast, and the name is the configured one when one is configured.
Qualifies(i) ==
    /\ wantFlags \subseteq i.Flags
    /\ Interface = "" \/ i.Name = Interface

InSrcs(a) == \E j \in DOMAIN srcs : srcs[j] = a

\* C9: after a successful enumeration, every address (that parses as IPv4 CIDR)
\* of every qualifying interface whose addresses can be read has its broadcast
\* address in d.broadcasts, and every address used comes from a qualifying
\* interface.
C9_InterfaceSelection ==
    (enumerated /\ ret # "interfaces") =>
        /\ \A n \in DOMAIN interfaces :
              (Qualifies(interfaces[n]) /\ interfaces[n].addrsOk) =>
                  \A m \in DOMAIN interfaces[n].Addrs :
                      LET a == interfaces[n].Addrs[m]
                      IN  (a.parses /\ a.v4) => InSrcs(a)
        /\ \A j \in DOMAIN srcs :
              \E n \in DOMAIN interfaces :
                  /\ Qualifies(interfaces[n])
                  /\ \E m \in DOMAIN interfaces[n].Addrs : interfaces[n].Addrs[m] = srcs[j]

\* C10: every computed broadcast address has, per octet, the value
\* network | (0xff - mask) with network = ip & mask; it lies in 0..255; each host
\* bit (mask bit 0) is 1 and each network bit (mask bit 1) is the bit of the
\* interface address; 192.168.1.42/24 gives 192.168.1.255.
C10_BroadcastArithmetic ==
    /\ Len(broadcasts) = Len(srcs)
    /\ \A j \in DOMAIN broadcasts :
          LET ip == srcs[j].ip
              mask == CIDRMask(srcs[j].prefix)
              b == broadcasts[j]
          IN  /\ \A o \in 1..4 :
                    /\ b[o] \in 0..255
                    /\ b[o] = ByteOr(ByteAnd(ip[o], mask[o]), 255 - mask[o])
                    /\ \A t \in 0..7 :
                          Bit(b[o], t) = IF Bit(mask[o], t) = 0 THEN 1 ELSE Bit(ip[o], t)
              /\ (ip = <<192, 168, 1, 42>> /\ srcs[j].prefix = 24)
                    => b = <<192, 168, 1, 255>>

\* C10 witness: the broadcast address of 192.168.1.42/24 has been computed, and
\* so has one for a mask that is not a whole number of octets.
C10_Witness ==
    /\ enumerated
    /\ Len(broadcasts) = 1
    /\ srcs[1].ip = <<192, 168, 1, 42>>
    /\ srcs[1].prefix \in {24, 21}
    /\ broadcasts[1] \in {<<192, 168, 1, 255>>, <<192, 168, 7, 255>>}

\* ========================================================================
\* Properties of the parameter codec
\* ========================================================================
\* The wire codes of each type's table, as the specification lists them
TableCodes(t) ==
    CASE t = "Power" -> {<<"0">>, <<"1">>}
      [] t = "Mode" -> {<<"0">>, <<"1">>, <<"2">>, <<"3">>, <<"4">>, <<"6">>, <<"7">>}
      [] t = "Fan" -> {<<"A">>, <<"B">>, <<"3">>, <<"4">>, <<"5">>, <<"6">>, <<"7">>}
      [] t = "FanDir" -> {<<"0">>, <<"1">>, <<"2">>, <<"3">>}

\* C7: enumerated round trip: when decode has read the string that setUrlValues
\* produced for a value v of the type's table, it returned no error and the
\* decoded field is v.
C7_EnumRoundTrip ==
    (res.set /\ res.enc /\ res.from \in Table(ftyp)) =>
        /\ ~res.err
        /\ dst = res.from
        /\ res.s \in TableCodes(ftyp)

\* C7 witness: Mode 7 was encoded and decoded into a field (the decode of an
\* encoded Fan and FanDir value is reached as well, see C7 under each ftyp).
C7_Witness ==
    /\ res.set /\ res.enc
    /\ ftyp = "Mode"
    /\ res.from = ModeAuto7
    /\ res.s = <<"7">>
    /\ dst = ModeAuto7

\* C8: unknown codes are rejected, not coerced: a decode of a string that is no
\* code of the type's table returns an error and leaves the field as it was.
C8_UnknownCodeRejected ==
    [][(wire.set /\ res'.set /\ wire.s \notin TableCodes(ftyp)) =>
            (res'.err /\ dst' = dst)]_vars

\* ========================================================================
\* Properties of the device client
\* ========================================================================
\* C6: device-level failure is always surfaced: when the framed response of a
\* GetControlInfo, GetSensorInfo or SetControlInfo holds a ret key whose value
\* is not "OK", the operation returns the device error carrying that value.
C6_DeviceErrorSurfaced ==
    (op.framed /\ kRet \in DOMAIN op.values /\ op.values[kRet] # returnOk) =>
        op.err = DeviceErr(op.values[kRet])

\* C13: response framing is total over single-record bodies: whatever the
\* tokens of the one record are (a token without "=" included), parseResponse
\* returns a mapping or an error value, so that no GetControlInfo,
\* GetSensorInfo or SetControlInfo ends in a crash because of the response (a
\* SetControlInfo on a client whose ControlInfo is nil crashes before any
\* response is read and is not counted here).
C13_FramingTotal ==
    (op.name \in {"GetControlInfo", "GetSensorInfo", "SetControlInfo"}
        /\ ~(op.name = "SetControlInfo" /\ dev.ControlInfo = NilInfo)) =>
        op.err # Panic

\* C11: every ControlInfo field round-trips through its codec: populating a
\* fresh ControlInfo from the key/value pairs urlValues(c) produced returns no
\* error and yields a ControlInfo equal to c field for field, for table members
\* in the enumerated fields, any humidity and any decimal temperature.
C11_ControlInfoRoundTrip ==
    [][(op.name = "urlValues" /\ op'.name = "populate") =>
            (op'.err = NoError /\ dev'.ControlInfo = dev.ControlInfo)]_vars

====
